---- MODULE Spec2Model ----
(***************************************************************************)
(* Model of my_speedtest: the SQLite measurement store (db.py) and the     *)
(* measurement runner (cron_job.py).                                       *)
(*                                                                         *)
(* A connection is a record holding the schema and the five tables as the  *)
(* connection sees them (db); disk is the committed database.  Text values *)
(* that are compared by SQLite (timestamps) are sequences of character     *)
(* codes, compared the way SQLite's BINARY collation compares them.        *)
(***************************************************************************)
EXTENDS Integers, Sequences, FiniteSets, TLC

VARIABLES db, disk, call, raised, pc, cycle, measurement_id, timestamp,
          exception, results, attempts, base, trace, log

vars == <<db, disk, call, raised, pc, cycle, measurement_id, timestamp,
          exception, results, attempts, base, trace, log>>

runnerVars == <<pc, cycle, measurement_id, timestamp, exception, results,
                attempts, base, trace, log>>

(***************************************************************************)
(* Bounds and input domains                                                *)
(***************************************************************************)
MaxCycles == 2
MaxMeasurements == 2
MaxChildRows == 4

\* datetime.now().isoformat() drops the fraction when microsecond = 0, so
\* one timestamp can be a proper prefix of another.
Timestamps == {<<1>>, <<1, 1>>}
RangeBounds == {<<>>, <<1>>, <<1, 1>>, <<2>>}
MeasurementIds == {1, 2}
CapabilityResults ==
    {[download |-> 1, upload |-> 2, ping |-> 3],
     [download |-> 2, upload |-> 1, ping |-> 1]}
StoreRates == {1}
Messages == {"connection refused", "no servers"}
StoreMessages == {"connection refused"}

NoResults == [download |-> 0, upload |-> 0, ping |-> 0]
NoCall == [op |-> "none", measurement_id |-> 0]

(***************************************************************************)
(* Schema (db.py: CREATE TABLE statements)                                 *)
(***************************************************************************)
MeasurementsDef ==
    [name |-> "measurements", pk |-> "measurement_id",
     columns |-> <<"timestamp">>, references |-> "none"]

DownloadsDef ==
    [name |-> "downloads", pk |-> "download_id",
     columns |-> <<"measurement_id", "download_rate">>,
     references |-> "measurement"]

UploadsDef ==
    [name |-> "uploads", pk |-> "upload_id",
     columns |-> <<"measurement_id", "upload_rate">>,
     references |-> "measurement"]

PingsDef ==
    [name |-> "pings", pk |-> "ping_id",
     columns |-> <<"measurement_id", "ping">>,
     references |-> "measurement"]

ErrorLogsDef ==
    [name |-> "error_logs", pk |-> "error_log_id",
     columns |-> <<"measurement_id", "log_message">>,
     references |-> "measurement"]

\* sqlite3.connect on a fresh file: no tables, foreign_keys pragma off.
get_db ==
    [schema |-> {}, foreign_keys |-> FALSE, measurements |-> <<>>,
     downloads |-> <<>>, uploads |-> <<>>, pings |-> <<>>,
     error_logs |-> <<>>]

TableExists(conn, name) == \E t \in conn.schema : t.name = name

TableDef(conn, name) == CHOOSE t \in conn.schema : t.name = name

\* CREATE TABLE without IF NOT EXISTS: fails on an existing table.
CreateTablePlain(conn, def) ==
    IF TableExists(conn, def.name)
    THEN [raised |-> "OperationalError", db |-> conn]
    ELSE [raised |-> "none",
          db |-> [conn EXCEPT !.schema = conn.schema \cup {def}]]

\* CREATE TABLE IF NOT EXISTS
CreateTableIfNotExists(conn, def) ==
    IF TableExists(conn, def.name)
    THEN [raised |-> "none", db |-> conn]
    ELSE [raised |-> "none",
          db |-> [conn EXCEPT !.schema = conn.schema \cup {def}]]

create_measurements_table(conn) == CreateTableIfNotExists(conn, MeasurementsDef)
create_downloads_table(conn) == CreateTableIfNotExists(conn, DownloadsDef)
create_uploads_table(conn) == CreateTableIfNotExists(conn, UploadsDef)
create_ping_table(conn) == CreateTableIfNotExists(conn, PingsDef)
create_error_log_table(conn) == CreateTableIfNotExists(conn, ErrorLogsDef)

\* db.py run as a script: the five create_*_table calls in order; the
\* first one that raises ends the block.
main(conn) ==
    LET r1 == create_measurements_table(conn)
        r2 == IF r1.raised # "none" THEN r1 ELSE create_downloads_table(r1.db)
        r3 == IF r2.raised # "none" THEN r2 ELSE create_uploads_table(r2.db)
        r4 == IF r3.raised # "none" THEN r3 ELSE create_ping_table(r3.db)
    IN IF r4.raised # "none" THEN r4 ELSE create_error_log_table(r4.db)

(***************************************************************************)
(* Writes (db.py: the add_ functions)                                      *)
(***************************************************************************)
NextRowId(rows, key) ==
    IF rows = <<>> THEN 1
    ELSE 1 + (CHOOSE m \in {rows[i][key] : i \in 1..Len(rows)} :
                 \A i \in 1..Len(rows) : rows[i][key] <= m)

MeasurementIdsOf(conn) ==
    {conn.measurements[i].measurement_id : i \in 1..Len(conn.measurements)}

\* What the INSERT into a child table raises.  The FOREIGN KEY clause is
\* only looked at when the connection's foreign_keys pragma is on, and it
\* names the parent table "measurement".
ForeignKeyCheck(conn, table, mid) ==
    IF ~TableExists(conn, table) THEN "OperationalError"
    ELSE IF ~conn.foreign_keys THEN "none"
    ELSE IF ~TableExists(conn, TableDef(conn, table).references)
         THEN "OperationalError"
    ELSE IF mid \notin MeasurementIdsOf(conn) THEN "IntegrityError"
    ELSE "none"

add_measurement(conn, ts) ==
    IF ~TableExists(conn, "measurements")
    THEN [raised |-> "OperationalError", db |-> conn, lastrowid |-> 0]
    ELSE LET id == NextRowId(conn.measurements, "measurement_id")
         IN [raised |-> "none",
             db |-> [conn EXCEPT !.measurements =
                        Append(@, [measurement_id |-> id, timestamp |-> ts])],
             lastrowid |-> id]

add_download(conn, mid, download_rate) ==
    LET e == ForeignKeyCheck(conn, "downloads", mid)
    IN IF e # "none" THEN [raised |-> e, db |-> conn]
       ELSE [raised |-> "none",
             db |-> [conn EXCEPT !.downloads = Append(@,
                       [download_id |-> NextRowId(conn.downloads, "download_id"),
                        measurement_id |-> mid,
                        download_rate |-> download_rate])]]

add_upload(conn, mid, upload_rate) ==
    LET e == ForeignKeyCheck(conn, "uploads", mid)
    IN IF e # "none" THEN [raised |-> e, db |-> conn]
       ELSE [raised |-> "none",
             db |-> [conn EXCEPT !.uploads = Append(@,
                       [upload_id |-> NextRowId(conn.uploads, "upload_id"),
                        measurement_id |-> mid,
                        upload_rate |-> upload_rate])]]

add_ping(conn, mid, ping) ==
    LET e == ForeignKeyCheck(conn, "pings", mid)
    IN IF e # "none" THEN [raised |-> e, db |-> conn]
       ELSE [raised |-> "none",
             db |-> [conn EXCEPT !.pings = Append(@,
                       [ping_id |-> NextRowId(conn.pings, "ping_id"),
                        measurement_id |-> mid,
                        ping |-> ping])]]

add_error_log(conn, mid, log_message) ==
    LET e == ForeignKeyCheck(conn, "error_logs", mid)
    IN IF e # "none" THEN [raised |-> e, db |-> conn]
       ELSE [raised |-> "none",
             db |-> [conn EXCEPT !.error_logs = Append(@,
                       [error_log_id |-> NextRowId(conn.error_logs, "error_log_id"),
                        measurement_id |-> mid,
                        log_message |-> log_message])]]

(***************************************************************************)
(* Reads (db.py: the get_ functions)                                       *)
(***************************************************************************)
\* SQLite's comparison of two TEXT values (BINARY collation): byte by byte,
\* and a proper prefix sorts first.
RECURSIVE TextLeq(_, _)
TextLeq(a, b) ==
    IF a = <<>> THEN TRUE
    ELSE IF b = <<>> THEN FALSE
    ELSE IF Head(a) < Head(b) THEN TRUE
    ELSE IF Head(a) > Head(b) THEN FALSE
    ELSE TextLeq(Tail(a), Tail(b))

RECURSIVE Flatten(_)
Flatten(ss) == IF ss = <<>> THEN <<>> ELSE Head(ss) \o Flatten(Tail(ss))

ChildrenOf(rows, mid) == SelectSeq(rows, LAMBDA r : r.measurement_id = mid)

JoinedRow(m, d, u, p) ==
    [measurement_id |-> m.measurement_id, timestamp |-> m.timestamp,
     download_rate |-> d.download_rate, upload_rate |-> u.upload_rate,
     ping |-> p.ping]

\* measurements m LEFT JOIN ...: a fact table without a matching row still
\* yields a row (with a NULL, written 0).
LeftJoinRowsFor(conn, m) ==
    LET D == ChildrenOf(conn.downloads, m.measurement_id)
        U == ChildrenOf(conn.uploads, m.measurement_id)
        P == ChildrenOf(conn.pings, m.measurement_id)
        D0 == IF D = <<>> THEN <<[download_rate |-> 0]>> ELSE D
        U0 == IF U = <<>> THEN <<[upload_rate |-> 0]>> ELSE U
        P0 == IF P = <<>> THEN <<[ping |-> 0]>> ELSE P
    IN Flatten([i \in 1..Len(D0) |->
          Flatten([j \in 1..Len(U0) |->
             [k \in 1..Len(P0) |-> JoinedRow(m, D0[i], U0[j], P0[k])]])])

\* measurements m JOIN downloads d JOIN uploads u JOIN pings p, each ON
\* m.measurement_id = x.measurement_id: the rows contributed by one m.
JoinRowsFor(conn, m) ==
    LET D == ChildrenOf(conn.downloads, m.measurement_id)
        U == ChildrenOf(conn.uploads, m.measurement_id)
        P == ChildrenOf(conn.pings, m.measurement_id)
    IN Flatten([i \in 1..Len(D) |->
          Flatten([j \in 1..Len(U) |->
             [k \in 1..Len(P) |-> JoinedRow(m, D[i], U[j], P[k])]])])

JoinRows(conn) ==
    Flatten([i \in 1..Len(conn.measurements) |->
                JoinRowsFor(conn, conn.measurements[i])])

QueryTablesExist(conn) ==
    /\ TableExists(conn, "measurements")
    /\ TableExists(conn, "downloads")
    /\ TableExists(conn, "uploads")
    /\ TableExists(conn, "pings")

\* SELECT m.timestamp, d.download_rate, u.upload_rate, p.ping; dict(row)
Result(row) ==
    [timestamp |-> row.timestamp, download_rate |-> row.download_rate,
     upload_rate |-> row.upload_rate, ping |-> row.ping]

NoRow == [timestamp |-> <<>>, download_rate |-> 0, upload_rate |-> 0, ping |-> 0]

\* The cursor of get_result_for_measurement_id: WHERE m.measurement_id = ?
RowsForId(conn, mid) ==
    SelectSeq(JoinRows(conn), LAMBDA r : r.measurement_id = mid)

\* dict(cursor.fetchone()): fetchone() is None on an empty cursor and
\* dict(None) raises TypeError.
get_result_for_measurement_id(conn, mid) ==
    IF ~QueryTablesExist(conn)
    THEN [raised |-> "OperationalError", value |-> NoRow]
    ELSE LET rows == RowsForId(conn, mid)
         IN IF rows = <<>>
            THEN [raised |-> "TypeError", value |-> NoRow]
            ELSE [raised |-> "none", value |-> Result(Head(rows))]

AllRows(conn) == JoinRows(conn)

get_all_results(conn) ==
    IF ~QueryTablesExist(conn)
    THEN [raised |-> "OperationalError", value |-> <<>>]
    ELSE LET rows == AllRows(conn)
         IN [raised |-> "none",
             value |-> [i \in 1..Len(rows) |-> Result(rows[i])]]

\* WHERE m.timestamp >= ? AND m.timestamp < ?  (end bound exclusive)
RangeRowsHalfOpen(conn, start_datetime, end_datetime) ==
    SelectSeq(JoinRows(conn),
              LAMBDA r : /\ TextLeq(start_datetime, r.timestamp)
                         /\ TextLeq(r.timestamp, end_datetime)
                         /\ r.timestamp # end_datetime)

\* WHERE m.timestamp >= ? AND m.timestamp <= ?
RangeRows(conn, start_datetime, end_datetime) ==
    SelectSeq(JoinRows(conn),
              LAMBDA r : /\ TextLeq(start_datetime, r.timestamp)
                         /\ TextLeq(r.timestamp, end_datetime))

get_results_for_start_and_end_date(conn, start_datetime, end_datetime) ==
    IF ~QueryTablesExist(conn)
    THEN [raised |-> "OperationalError", value |-> <<>>]
    ELSE LET rows == RangeRows(conn, start_datetime, end_datetime)
         IN [raised |-> "none",
             value |-> [i \in 1..Len(rows) |-> Result(rows[i])]]

(***************************************************************************)
(* Initial state: a fresh database file, no runner cycle started.          *)
(***************************************************************************)
Init ==
    /\ db = get_db
    /\ disk = get_db
    /\ call = NoCall
    /\ raised = "none"
    /\ pc = "idle"
    /\ cycle = 0
    /\ measurement_id = 0
    /\ timestamp = <<>>
    /\ exception = "none"
    /\ results = NoResults
    /\ attempts = 0
    /\ base = 0
    /\ trace = <<>>
    /\ log = <<>>

Called(op, mid) == [op |-> op, measurement_id |-> mid]

\* One store call in its own unit of work ("with connection:"): commit on
\* normal exit, rollback when the call raised.
Unit(r, c) ==
    /\ call' = c
    /\ raised' = r.raised
    /\ db' = IF r.raised = "none" THEN r.db ELSE disk
    /\ disk' = IF r.raised = "none" THEN r.db ELSE disk

\* python -m my_speedtest.db
Main ==
    /\ pc = "idle"
    /\ Unit(main(db), Called("main", 0))
    /\ UNCHANGED runnerVars

ChildRowCount(conn) ==
    Len(conn.downloads) + Len(conn.uploads) + Len(conn.pings)
        + Len(conn.error_logs)

StoreAddMeasurement ==
    /\ Len(db.measurements) < MaxMeasurements
    /\ \E ts \in Timestamps :
          Unit(add_measurement(db, ts), Called("add_measurement", 0))
    /\ UNCHANGED runnerVars

StoreAddDownload ==
    /\ ChildRowCount(db) < MaxChildRows
    /\ \E mid \in MeasurementIds, rate \in StoreRates :
          Unit(add_download(db, mid, rate), Called("add_download", mid))
    /\ UNCHANGED runnerVars

StoreAddUpload ==
    /\ ChildRowCount(db) < MaxChildRows
    /\ \E mid \in MeasurementIds, rate \in StoreRates :
          Unit(add_upload(db, mid, rate), Called("add_upload", mid))
    /\ UNCHANGED runnerVars

StoreAddPing ==
    /\ ChildRowCount(db) < MaxChildRows
    /\ \E mid \in MeasurementIds, rate \in StoreRates :
          Unit(add_ping(db, mid, rate), Called("add_ping", mid))
    /\ UNCHANGED runnerVars

StoreAddErrorLog ==
    /\ ChildRowCount(db) < MaxChildRows
    /\ \E mid \in MeasurementIds, msg \in StoreMessages :
          Unit(add_error_log(db, mid, msg), Called("add_error_log", mid))
    /\ UNCHANGED runnerVars

\* The reads leave the database alone.
StoreGetResult ==
    /\ \E mid \in MeasurementIds :
          /\ call' = Called("get_result_for_measurement_id", mid)
          /\ raised' = get_result_for_measurement_id(db, mid).raised
    /\ UNCHANGED <<db, disk>>
    /\ UNCHANGED runnerVars

StoreGetAll ==
    /\ call' = Called("get_all_results", 0)
    /\ raised' = get_all_results(db).raised
    /\ UNCHANGED <<db, disk>>
    /\ UNCHANGED runnerVars

StoreGetRange ==
    /\ \E s \in RangeBounds, e \in RangeBounds :
          /\ call' = Called("get_results_for_start_and_end_date", 0)
          /\ raised' = get_results_for_start_and_end_date(db, s, e).raised
    /\ UNCHANGED <<db, disk>>
    /\ UNCHANGED runnerVars

StoreNext ==
    \/ Main
    \/ StoreAddMeasurement
    \/ StoreAddDownload
    \/ StoreAddUpload
    \/ StoreAddPing
    \/ StoreAddErrorLog
    \/ StoreGetResult
    \/ StoreGetAll
    \/ StoreGetRange

StoreSpec == Init /\ [][StoreNext]_vars

(***************************************************************************)
(* The runner (cron_job.py).  pc names the line about to run; "L15x",      *)
(* "L26x" and "L34x" are the exits of the three "with connection:" blocks  *)
(* (commit).  An exception that leaves a with block rolls the connection   *)
(* back; one that leaves the script ends the process.                      *)
(*                                                                         *)
(* attempts, base, trace and log are history variables: the number of      *)
(* times the try body was entered, the number of measurements rows on disk *)
(* when the cycle started, the phases the cycle went through, and one      *)
(* entry per finished cycle.                                               *)
(***************************************************************************)
Entry(outcome, exc) ==
    [measurement_id |-> measurement_id, timestamp |-> timestamp,
     results |-> IF outcome = "succeeded" THEN results ELSE NoResults,
     exception |-> exc, outcome |-> outcome, at |-> pc]

\* The process ends: the connection and the script's variables are gone,
\* uncommitted work is lost.
EndCycle(outcome, exc) ==
    /\ db' = disk'
    /\ pc' = "idle"
    /\ measurement_id' = 0
    /\ timestamp' = <<>>
    /\ exception' = "none"
    /\ results' = NoResults
    /\ trace' = Append(trace, "Done")
    /\ log' = Append(log, Entry(outcome, exc))
    /\ UNCHANGED <<call, raised, cycle, attempts, base>>

\* The statement at pc ran without leaving the script; the caller says what
\* it changed.
Goto(next) ==
    /\ pc' = next
    /\ UNCHANGED <<call, raised, cycle, base, log>>

\* L14: connection = db.get_db()
StartCycle ==
    /\ pc = "idle"
    /\ cycle < MaxCycles
    /\ cycle' = cycle + 1
    /\ db' = disk
    /\ pc' = "L17"
    /\ attempts' = 0
    /\ base' = Len(disk.measurements)
    /\ trace' = <<"Start">>
    /\ UNCHANGED <<disk, call, raised, measurement_id, timestamp, exception,
                   results, log>>

\* L16-17: timestamp = now().isoformat(); measurement_id = add_measurement(..)
AddMeasurement ==
    /\ pc = "L17"
    /\ \E ts \in Timestamps :
          LET r == add_measurement(db, ts)
          IN \/ /\ r.raised = "none"
                /\ db' = r.db
                /\ measurement_id' = r.lastrowid
                /\ timestamp' = ts
                /\ Goto("L15x")
                /\ UNCHANGED <<disk, exception, results, attempts, trace>>
             \/ /\ r.raised # "none"
                /\ UNCHANGED disk
                /\ EndCycle("storage_fault", "none")

\* L15 exit: commit of the measurement row, or the commit fails
CommitMeasurement ==
    /\ pc = "L15x"
    /\ \/ /\ disk' = db
          /\ trace' = Append(trace, "MeasurementCreated")
          /\ Goto("L19")
          /\ UNCHANGED <<db, measurement_id, timestamp, exception, results,
                         attempts>>
       \/ /\ UNCHANGED disk
          /\ EndCycle("storage_fault", "none")

\* L19: client = speedtest.Speedtest(), outside the try statement
Construct ==
    /\ pc = "L19"
    /\ \/ /\ Goto("L21")
          /\ UNCHANGED <<db, disk, measurement_id, timestamp, exception,
                         results, attempts, trace>>
       \/ /\ UNCHANGED disk
          /\ \E msg \in Messages : EndCycle("propagated", msg)

\* After a call of the try body raised, the call is made again.
TryCallRetry(next) ==
    /\ \/ /\ Goto(next)
          /\ trace' = IF next = "L33" THEN Append(trace, "Succeeded") ELSE trace
          /\ UNCHANGED exception
       \/ \E msg \in Messages :
             /\ Goto("L21")
             /\ exception' = msg
             /\ trace' = trace
    /\ attempts' = IF pc = "L21" THEN attempts + 1 ELSE attempts
    /\ UNCHANGED <<db, disk, measurement_id, timestamp, results>>

\* A call of the try body (L21-L24): it returns, or it raises and control
\* goes to the except clause (L25-L26).  Leaving L24 normally enters the
\* else clause.
TryCall(next) ==
    /\ \/ /\ Goto(next)
          /\ trace' = IF next = "L33" THEN Append(trace, "Succeeded") ELSE trace
          /\ UNCHANGED exception
       \/ \E msg \in Messages :
             /\ Goto("L27")
             /\ exception' = msg
             /\ trace' = Append(trace, "Failed")
    /\ attempts' = IF pc = "L21" THEN attempts + 1 ELSE attempts
    /\ UNCHANGED <<db, disk, measurement_id, timestamp, results>>

GetServers ==
    /\ pc = "L21"
    /\ TryCall("L22")

GetBestServer ==
    /\ pc = "L22"
    /\ TryCall("L23")

Download ==
    /\ pc = "L23"
    /\ TryCall("L24")

Upload ==
    /\ pc = "L24"
    /\ TryCall("L33")

\* Every statement commits on its own (a connection in autocommit mode).
WriteAutocommit(r, next) ==
    \/ /\ r.raised = "none"
       /\ db' = r.db
       /\ disk' = r.db
       /\ Goto(next)
       /\ UNCHANGED <<measurement_id, timestamp, exception, results,
                      attempts, trace>>
    \/ /\ UNCHANGED disk
       /\ EndCycle("storage_fault", "none")

\* A write inside a with block that raises ends the script after the
\* rollback; the I/O fault is possible whatever the statement.
Write(r, next) ==
    \/ /\ r.raised = "none"
       /\ db' = r.db
       /\ Goto(next)
       /\ UNCHANGED <<disk, measurement_id, timestamp, exception, results,
                      attempts, trace>>
    \/ /\ UNCHANGED disk
       /\ EndCycle("storage_fault", "none")

\* L26-31: with connection: db.add_error_log(.., str(exception))
AddErrorLog ==
    /\ pc = "L27"
    /\ Write(add_error_log(db, measurement_id, exception), "L26x")

\* L26 exit: commit of the error log, or the commit fails
CommitErrorLog ==
    /\ pc = "L26x"
    /\ \/ /\ disk' = db
          /\ EndCycle("failed", exception)
       \/ /\ UNCHANGED disk
          /\ EndCycle("storage_fault", "none")

\* L33: results = client.results.dict(), in the else clause
ReadResults ==
    /\ pc = "L33"
    /\ \/ /\ results' \in CapabilityResults
          /\ Goto("L35")
          /\ UNCHANGED <<db, disk, measurement_id, timestamp, exception,
                         attempts, trace>>
       \/ /\ UNCHANGED disk
          /\ \E msg \in Messages : EndCycle("propagated", msg)

\* L35-39
AddDownload ==
    /\ pc = "L35"
    /\ Write(add_download(db, measurement_id, results.download), "L40")

\* The upload row is written from the download value.
AddUploadWrongKey ==
    /\ pc = "L40"
    /\ Write(add_upload(db, measurement_id, results.download), "L45")

\* L40-44
AddUpload ==
    /\ pc = "L40"
    /\ Write(add_upload(db, measurement_id, results.upload), "L45")

\* L45-47
AddPing ==
    /\ pc = "L45"
    /\ Write(add_ping(db, measurement_id, results.ping), "L34x")

\* The with block of the else clause commits whatever the connection holds
\* and the script goes on to the except clause's block.
CommitFactsFallThrough ==
    /\ pc = "L34x"
    /\ disk' = db
    /\ exception' = "fell through"
    /\ Goto("L27")
    /\ UNCHANGED <<db, measurement_id, timestamp, results, attempts, trace>>

\* L34 exit: commit of the three facts, or the commit fails
CommitFacts ==
    /\ pc = "L34x"
    /\ \/ /\ disk' = db
          /\ EndCycle("succeeded", "none")
       \/ /\ UNCHANGED disk
          /\ EndCycle("storage_fault", "none")

\* The process is killed between two steps.
Crash ==
    /\ pc # "idle"
    /\ UNCHANGED disk
    /\ EndCycle("crashed", "none")

CycleStep ==
    \/ AddMeasurement
    \/ CommitMeasurement
    \/ Construct
    \/ GetServers
    \/ GetBestServer
    \/ Download
    \/ Upload
    \/ AddErrorLog
    \/ CommitErrorLog
    \/ ReadResults
    \/ AddDownload
    \/ AddUpload
    \/ AddPing
    \/ CommitFacts

Next ==
    \/ Main
    \/ StartCycle
    \/ CycleStep
    \/ Crash

Spec == Init /\ [][Next]_vars

\* The interpreter runs the next statement of a started script.
FairSpec == Spec /\ WF_vars(CycleStep)

(***************************************************************************)
(* Vocabulary of the properties                                            *)
(***************************************************************************)
HasDownload(conn, mid) == ChildrenOf(conn.downloads, mid) # <<>>
HasUpload(conn, mid) == ChildrenOf(conn.uploads, mid) # <<>>
HasPing(conn, mid) == ChildrenOf(conn.pings, mid) # <<>>
HasErrorLog(conn, mid) == ChildrenOf(conn.error_logs, mid) # <<>>

HasTriple(conn, mid) ==
    HasDownload(conn, mid) /\ HasUpload(conn, mid) /\ HasPing(conn, mid)

HasNoFact(conn, mid) ==
    ~HasDownload(conn, mid) /\ ~HasUpload(conn, mid) /\ ~HasPing(conn, mid)

ReferencedIds(rows) == {rows[i].measurement_id : i \in 1..Len(rows)}

\* Every measurement id that occurs anywhere in the database.
AllIds(conn) ==
    MeasurementIdsOf(conn) \cup ReferencedIds(conn.downloads)
        \cup ReferencedIds(conn.uploads) \cup ReferencedIds(conn.pings)
        \cup ReferencedIds(conn.error_logs)

\* Lexicographic order on strings, stated without recursion: a is a prefix
\* of b, or they first differ at a position where a has the smaller code.
StringLeq(a, b) ==
    \/ /\ Len(a) <= Len(b)
       /\ \A i \in 1..Len(a) : a[i] = b[i]
    \/ \E k \in 1..Len(a) :
          /\ k <= Len(b)
          /\ \A i \in 1..(k - 1) : a[i] = b[i]
          /\ a[k] < b[k]

Appears(rows, mid) == \E i \in 1..Len(rows) : rows[i].measurement_id = mid

Schema == {MeasurementsDef, DownloadsDef, UploadsDef, PingsDef, ErrorLogsDef}

ChildOps == {"add_download", "add_upload", "add_ping", "add_error_log"}

ChildTables(conn) ==
    <<conn.downloads, conn.uploads, conn.pings, conn.error_logs>>

Succeeded(i) == log[i].outcome = "succeeded"

(***************************************************************************)
(* C1  Mutual exclusivity: whatever the runner cycles did (success,        *)
(* capability failure, storage fault, crash), no measurement id has a      *)
(* downloads row, an uploads row, a pings row and also an error_logs row,  *)
(* neither on disk nor in the connection's view.                           *)
(***************************************************************************)
MutualExclusivity ==
    \A conn \in {db, disk} : \A mid \in AllIds(conn) :
        ~(HasTriple(conn, mid) /\ HasErrorLog(conn, mid))

\* A cycle that succeeded and a cycle that failed are both on disk.
MutualExclusivityWitness ==
    \E i \in DOMAIN log, j \in DOMAIN log :
        /\ log[i].outcome = "succeeded"
        /\ HasTriple(disk, log[i].measurement_id)
        /\ log[j].outcome = "failed"
        /\ HasErrorLog(disk, log[j].measurement_id)

(***************************************************************************)
(* C8  Atomicity of the success step: on disk every measurement has all    *)
(* three of its downloads, uploads and pings rows or none of them, also    *)
(* after a storage fault or a crash inside the success unit.               *)
(***************************************************************************)
SuccessUnitAtomic ==
    \A mid \in AllIds(disk) :
        /\ HasDownload(disk, mid) = HasUpload(disk, mid)
        /\ HasUpload(disk, mid) = HasPing(disk, mid)

\* A cycle ended by a fault or a crash after add_download had run, and a
\* cycle ended by a crash after add_upload had run.
SuccessUnitAtomicWitness ==
    /\ \E i \in DOMAIN log :
          /\ log[i].outcome = "storage_fault"
          /\ log[i].at \in {"L40", "L45", "L34x"}
          /\ HasNoFact(disk, log[i].measurement_id)
    /\ \E i \in DOMAIN log :
          /\ log[i].outcome = "crashed"
          /\ log[i].at \in {"L45", "L34x"}

(***************************************************************************)
(* C3  Success round trip: for every cycle that succeeded, the join on     *)
(* disk has exactly one row for the cycle's measurement id, and            *)
(* get_result_for_measurement_id returns the timestamp given to            *)
(* add_measurement and the three values the capability reported; this      *)
(* stays so while later cycles run.                                        *)
(***************************************************************************)
SuccessRoundTrip ==
    \A i \in DOMAIN log :
        Succeeded(i) =>
            LET r == get_result_for_measurement_id(disk, log[i].measurement_id)
            IN /\ r.raised = "none"
               /\ Len(RowsForId(disk, log[i].measurement_id)) = 1
               /\ r.value = [timestamp |-> log[i].timestamp,
                             download_rate |-> log[i].results.download,
                             upload_rate |-> log[i].results.upload,
                             ping |-> log[i].results.ping]

\* Two cycles succeeded with different reported values.
SuccessRoundTripWitness ==
    \E i \in DOMAIN log, j \in DOMAIN log :
        /\ Succeeded(i) /\ Succeeded(j)
        /\ log[i].results # log[j].results
        /\ log[i].results.download # log[i].results.upload

(***************************************************************************)
(* C7  Containment of a capability fault: every finished cycle in which    *)
(* the capability raised (at construction, in the try body or when the     *)
(* results are read) and that no storage fault or crash ended has ended    *)
(* normally with exactly one error_logs row for its measurement id,        *)
(* carrying the fault's text, and no fact row.                             *)
(***************************************************************************)
FaultContained ==
    \A i \in DOMAIN log :
        (log[i].exception # "none"
           /\ log[i].outcome \notin {"storage_fault", "crashed"}) =>
            /\ log[i].outcome = "failed"
            /\ Len(ChildrenOf(disk.error_logs, log[i].measurement_id)) = 1
            /\ ChildrenOf(disk.error_logs, log[i].measurement_id)[1].log_message
                   = log[i].exception
            /\ HasNoFact(disk, log[i].measurement_id)

(***************************************************************************)
(* C10  Cycle state machine: a cycle goes through Start,                   *)
(* MeasurementCreated, then Succeeded or Failed, then Done, in this order  *)
(* and never back; while the capability is in use exactly one measurements *)
(* row has been added and committed by the cycle; the try body is entered  *)
(* at most once; and a started cycle ends.                                 *)
(***************************************************************************)
Rank(phase) ==
    CASE phase = "Start" -> 1
      [] phase = "MeasurementCreated" -> 2
      [] phase = "Succeeded" -> 3
      [] phase = "Failed" -> 3
      [] phase = "Done" -> 4

PhasesOf(t) == {t[i] : i \in 1..Len(t)}

CycleInv ==
    /\ \A i \in 1..(Len(trace) - 1) : Rank(trace[i]) < Rank(trace[i + 1])
    /\ trace # <<>> => trace[1] = "Start"
    /\ ({"Succeeded", "Failed"} \cap PhasesOf(trace) # {}
          => "MeasurementCreated" \in PhasesOf(trace))
    /\ attempts <= 1
    /\ Len(disk.measurements) <= base + 1
    /\ pc \in {"L19", "L21", "L22", "L23", "L24"} =>
          /\ Len(disk.measurements) = base + 1
          /\ disk.measurements[base + 1] =
                [measurement_id |-> measurement_id, timestamp |-> timestamp]
    /\ pc = "idle" /\ trace # <<>> => trace[Len(trace)] = "Done"

CycleStateMachine == []CycleInv /\ ((pc # "idle") ~> (pc = "idle"))

\* A cycle has gone the whole failure path and stands at Done.
CycleStateMachineWitness ==
    /\ pc = "idle"
    /\ trace = <<"Start", "MeasurementCreated", "Failed", "Done">>
    /\ attempts = 1
    /\ cycle = MaxCycles

(***************************************************************************)
(* C2  Referential integrity: a call of add_download, add_upload, add_ping *)
(* or add_error_log with a measurement_id that is not in measurements      *)
(* raises and leaves the four child tables as they were.                   *)
(***************************************************************************)
ReferentialIntegrity ==
    [][(call'.op \in ChildOps
          /\ call'.measurement_id \notin MeasurementIdsOf(db))
         => (raised' # "none" /\ ChildTables(db') = ChildTables(db))]_vars

(***************************************************************************)
(* C4  NotFound is a normal outcome: on a database with the schema,        *)
(* get_result_for_measurement_id called with an id that has no complete    *)
(* fact triple returns without raising.                                    *)
(***************************************************************************)
NotFoundIsValue ==
    (/\ call.op = "get_result_for_measurement_id"
     /\ QueryTablesExist(db)
     /\ ~HasTriple(db, call.measurement_id))
        => raised = "none"

(***************************************************************************)
(* C5  Range filter: for every measurement M and bounds (start, end), the  *)
(* cursor of get_results_for_start_and_end_date has a row of M if and only *)
(* if M has a downloads, an uploads and a pings row and                    *)
(* start <= M.timestamp <= end as strings; the function returns one Result *)
(* per cursor row and does not raise.                                      *)
(***************************************************************************)
RangeFilter ==
    \A s \in RangeBounds, e \in RangeBounds :
        LET rows == RangeRows(db, s, e)
            ret == get_results_for_start_and_end_date(db, s, e)
        IN /\ \A i \in 1..Len(db.measurements) :
                 LET M == db.measurements[i]
                 IN Appears(rows, M.measurement_id) <=>
                       /\ HasTriple(db, M.measurement_id)
                       /\ StringLeq(s, M.timestamp)
                       /\ StringLeq(M.timestamp, e)
           /\ QueryTablesExist(db) =>
                 /\ ret.raised = "none"
                 /\ ret.value = [i \in 1..Len(rows) |-> Result(rows[i])]

\* The range query ran on a database where a complete measurement lies on
\* the end bound of one range and outside another, next to an incomplete
\* measurement inside a range.
RangeFilterWitness ==
    /\ call.op = "get_results_for_start_and_end_date"
    /\ raised = "none"
    /\ \E i \in 1..Len(db.measurements), j \in 1..Len(db.measurements) :
          LET M == db.measurements[i]
              N == db.measurements[j]
          IN /\ HasTriple(db, M.measurement_id)
             /\ ~HasTriple(db, N.measurement_id)
             /\ \E s \in RangeBounds :
                   /\ Appears(RangeRows(db, s, M.timestamp), M.measurement_id)
                   /\ ~Appears(RangeRows(db, s, N.timestamp), N.measurement_id)
             /\ \E s \in RangeBounds, e \in RangeBounds :
                   /\ StringLeq(s, e)
                   /\ ~Appears(RangeRows(db, s, e), M.measurement_id)

(***************************************************************************)
(* C6  Join exclusion: a measurement with an error log and no fact has no  *)
(* row in the cursor of get_all_results nor in that of                     *)
(* get_results_for_start_and_end_date, whatever the bounds; every row of   *)
(* get_all_results belongs to a measurement that has all three facts.      *)
(***************************************************************************)
JoinExclusion ==
    /\ \A i \in 1..Len(db.measurements) :
          LET mid == db.measurements[i].measurement_id
          IN (HasErrorLog(db, mid) /\ HasNoFact(db, mid)) =>
                /\ ~Appears(AllRows(db), mid)
                /\ \A s \in RangeBounds, e \in RangeBounds :
                      ~Appears(RangeRows(db, s, e), mid)
    /\ \A k \in 1..Len(AllRows(db)) :
          HasTriple(db, AllRows(db)[k].measurement_id)
    /\ Len(get_all_results(db).value) = Len(AllRows(db))

\* get_all_results ran on a database with a failed measurement (error log
\* only) and a complete one, and returned the complete one only.
JoinExclusionWitness ==
    /\ call.op = "get_all_results"
    /\ raised = "none"
    /\ Len(get_all_results(db).value) = 1
    /\ \E i \in 1..Len(db.measurements) :
          LET mid == db.measurements[i].measurement_id
          IN HasErrorLog(db, mid) /\ HasNoFact(db, mid)

(***************************************************************************)
(* C9  Idempotent schema creation: running the five create_*_table calls   *)
(* on a database that already has the schema raises nothing and leaves     *)
(* the tables, their definitions and all rows as they were.                *)
(***************************************************************************)
SchemaIdempotent ==
    [][(call'.op = "main" /\ db.schema = Schema)
         => (raised' = "none" /\ db' = db /\ disk' = disk)]_vars

\* The schema creation has run again on a database that holds rows.
SchemaIdempotentWitness ==
    /\ call.op = "main"
    /\ raised = "none"
    /\ db.schema = Schema
    /\ db.measurements # <<>>
    /\ ChildRowCount(db) > 0

====
